---- MODULE Spec2Model ----
(***************************************************************************)
(* Model of the tagged 64-byte version record codec of prodversion: the C  *)
(* header (prodVersionEncodeBytes / prodVersionDecodeBytes) and the C#     *)
(* library (VersionInfo.Encode / VersionInfo.Decode).                      *)
(*                                                                         *)
(* Conventions.  A byte buffer or a char array is a function over          *)
(* 0..n-1 whose values are the stored bytes 0..255, so that indices read   *)
(* as the source's offsets.  The value a C expression of type char sees    *)
(* is CharVal(b): it depends on whether the build's plain char is signed.  *)
(* A C# string is a function over 0..n-1 of UTF-16 code units.  An         *)
(* unsigned 64-bit integer is a tuple of four 16-bit limbs, most           *)
(* significant first.                                                      *)
(***************************************************************************)
EXTENDS Integers, Sequences, FiniteSets, TLC

\* ------------------------------------------------------------------------
\* Program constants
\* ------------------------------------------------------------------------
PRODVER_STRUCTVER == 1
PRODVER_PRODUCT_LEN == 24
PRODVER_METADATA_LEN == 15
PRODVER_COMMIT_LEN == 7
PRODVER_ENCODED_LEN == 64

VERSION_CHANNEL_BETA == 98
VERSION_CHANNEL_RELEASE == 114

ENCODING_VERSION == 1
PRODUCT_SIZE == 24
METADATA_SIZE == 15
COMMIT_HASH_SIZE == 7

\* ------------------------------------------------------------------------
\* Bounds of the explored inputs
\* ------------------------------------------------------------------------
\* texts are up to MaxExtra characters longer than their slot
MaxExtra == 1
\* buffers are up to MaxSlack bytes longer than the encoded length
MaxSlack == 1

\* ------------------------------------------------------------------------
\* Null references
\* ------------------------------------------------------------------------
\* a null buffer pointer / null byte[] / null string
NULL == [i \in {-1} |-> 0]

\* ------------------------------------------------------------------------
\* Integer helpers
\* ------------------------------------------------------------------------
RECURSIVE BitOr(_, _)
BitOr(a, b) ==
    IF a = 0 THEN b
    ELSE IF b = 0 THEN a
    ELSE 2 * BitOr(a \div 2, b \div 2)
         + (IF (a % 2 = 1) \/ (b % 2 = 1) THEN 1 ELSE 0)

RECURSIVE BitAnd(_, _)
BitAnd(a, b) ==
    IF a = 0 \/ b = 0 THEN 0
    ELSE 2 * BitAnd(a \div 2, b \div 2)
         + (IF (a % 2 = 1) /\ (b % 2 = 1) THEN 1 ELSE 0)

\* x >> n and x << n on non-negative operands
RECURSIVE Pow2(_)
Pow2(n) == IF n = 0 THEN 1 ELSE 2 * Pow2(n - 1)

Shr(x, n) == x \div Pow2(n)
Shl(x, n) == x * Pow2(n)

\* conversions to the fixed-width unsigned types
U8(x) == x % 256
U16(x) == x % 65536

\* unsigned 64-bit values as four 16-bit limbs, most significant first
U64Zero == <<0, 0, 0, 0>>

\* the eight bytes of a 64-bit value, most significant first
U64Bytes(d) ==
    [k \in 0..7 |-> IF k % 2 = 0 THEN d[(k \div 2) + 1] \div 256
                                 ELSE d[(k \div 2) + 1] % 256]

U64FromBytes(b) ==
    [j \in 1..4 |-> b[2 * (j - 1)] * 256 + b[2 * (j - 1) + 1]]

\* d >> s and d << s for s a multiple of 8, within 64 bits
Shr64(d, s) ==
    LET b == U64Bytes(d)
        n == s \div 8
    IN  U64FromBytes([k \in 0..7 |-> IF k - n >= 0 THEN b[k - n] ELSE 0])

Shl64(d, s) ==
    LET b == U64Bytes(d)
        n == s \div 8
    IN  U64FromBytes([k \in 0..7 |-> IF k + n <= 7 THEN b[k + n] ELSE 0])

Or64(a, b) == [j \in 1..4 |-> BitOr(a[j], b[j])]

\* (uint64_t) / (ulong) of a value 0..255
ToU64(x) == <<0, 0, 0, x>>

\* d & 0xFF as an integer
Low8(d) == BitAnd(d[4], 255)

\* ------------------------------------------------------------------------
\* C library
\* ------------------------------------------------------------------------
ArrayLen(a) == Cardinality(DOMAIN a)

\* number of bytes of s before the first NUL, looking at no more than n
strnlen(s, n) ==
    CHOOSE k \in 0..n :
        /\ \A j \in 0..(k - 1) : s[j] # 0
        /\ (k = n \/ s[k] = 0)

memset(dst, off, c, n) ==
    [i \in DOMAIN dst |-> IF i \in off..(off + n - 1) THEN c ELSE dst[i]]

\* copies the bytes of src up to its NUL, at most n, and pads with NUL to n
strncpy(dst, off, src, n) ==
    LET l == strnlen(src, n)
    IN  [i \in DOMAIN dst |->
            IF i \in off..(off + n - 1)
            THEN (IF i - off < l THEN src[i - off] ELSE 0)
            ELSE dst[i]]

\* memcpy(dst + doff, src + soff, n)
memcpy(dst, doff, src, soff, n) ==
    [i \in DOMAIN dst |->
        IF i \in doff..(doff + n - 1) THEN src[soff + (i - doff)] ELSE dst[i]]

\* dst[off] = c
Store(dst, off, c) == [dst EXCEPT ![off] = c]

\* ------------------------------------------------------------------------
\* State
\* ------------------------------------------------------------------------
VARIABLES
    charSigned,   \* the build: TRUE when plain char is a signed type
    texts,        \* the product, metadata and commit texts the caller has
    version,      \* C: the prodVersion_t handed to the encoder
    ret_buf,      \* C: the caller's destination buffer of the encoder
    encRet,       \* C: the encoder's return value, -1 before the call
    vi,           \* C#: the VersionInfo handed to Encode
    csBuffer,     \* C#: the byte[] returned by Encode, NULL before the call
    buf,          \* the bytes handed to the decoders, NULL before delivery
    ret_version,  \* C: the caller's output record of the decoder
    decRet,       \* C: the decoder's result: "none", "true", "false"
    decReads,     \* C: the offsets of buf the decoder call has read
    csVersion,    \* C#: the out parameter of Decode
    csRet,        \* C#: Decode's result: "none", "true", "false", "throw"
    csReads,      \* C#: the offsets of buffer the Decode call has read
    ret_str,      \* C: the caller's output array of the formatter
    buf_len,      \* C: the output length the caller passes to the formatter
    strRet,       \* C: the formatter's return value, -1 before the call
    strWrites,    \* C: the indexes of ret_str the formatter call has written
    csString,     \* C#: the string returned by ToString, NULL before the call
    littleEndian  \* the build: TRUE when integers are stored low byte first

\* what the tagged encoders and decoders work on
codecVars == <<charSigned, texts, version, ret_buf, encRet, vi, csBuffer, buf,
               ret_version, decRet, decReads, csVersion, csRet, csReads>>

\* what the formatters work on
formatVars == <<ret_str, buf_len, strRet, strWrites, csString>>

vars == <<codecVars, formatVars, littleEndian>>

\* ------------------------------------------------------------------------
\* C: char conversions
\* ------------------------------------------------------------------------
\* the value of a stored byte b read through an lvalue of type char
CharVal(b) == IF charSigned /\ b >= 128 THEN b - 256 ELSE b

\* the byte stored by an assignment of (char)x
ToChar(x) == x % 256

\* a null prodVersion_t pointer
NULLV == [null |-> TRUE]

\* ------------------------------------------------------------------------
\* C: prodVersionEncodeBytes, statement by statement.  st is the pair of
\* the destination buffer and the running offset.
\* ------------------------------------------------------------------------
EncodeArgsInvalid_OffByOne(dst, len, ver) ==
    dst = NULL \/ ver = NULLV \/ len <= PRODVER_ENCODED_LEN

EncodeArgsInvalid(dst, len, ver) ==
    dst = NULL \/ ver = NULLV \/ len < PRODVER_ENCODED_LEN

EncStructVer(st) ==
    [buf |-> Store(st.buf, st.offset, ToChar(PRODVER_STRUCTVER)),
     offset |-> st.offset + 1]

\* the characters copied without clearing the rest of the slot
EncProduct_NoPad(st, ver) ==
    [buf |-> memcpy(st.buf, st.offset, ver.product, 0,
                    strnlen(ver.product, PRODVER_PRODUCT_LEN)),
     offset |-> st.offset + PRODVER_PRODUCT_LEN]

EncProduct(st, ver) ==
    [buf |-> strncpy(memset(st.buf, st.offset, 0, PRODVER_PRODUCT_LEN),
                     st.offset, ver.product, PRODVER_PRODUCT_LEN),
     offset |-> st.offset + PRODVER_PRODUCT_LEN]

\* a 16-bit field written least significant byte first
EncU16_LittleEndian(st, v) ==
    [buf |-> Store(Store(st.buf, st.offset, ToChar(BitAnd(v, 255))),
                   st.offset + 1, ToChar(BitAnd(Shr(v, 8), 255))),
     offset |-> st.offset + 2]

EncU16(st, v) ==
    [buf |-> Store(Store(st.buf, st.offset, ToChar(BitAnd(Shr(v, 8), 255))),
                   st.offset + 1, ToChar(BitAnd(v, 255))),
     offset |-> st.offset + 2]

EncSemver(st, ver) ==
    EncU16(EncU16(EncU16(EncU16(st, ver.major), ver.minor), ver.patch),
           ver.build)

\* the channel byte stored without advancing the offset
EncChannel_NoAdvance(st, ver) ==
    [buf |-> Store(st.buf, st.offset, ToChar(ver.releaseChannel)),
     offset |-> st.offset]

EncChannel(st, ver) ==
    [buf |-> Store(st.buf, st.offset, ToChar(ver.releaseChannel)),
     offset |-> st.offset + 1]

\* the characters copied without clearing the rest of the slot
EncMetadata_NoPad(st, ver) ==
    [buf |-> memcpy(st.buf, st.offset, ver.metadata, 0,
                    strnlen(ver.metadata, PRODVER_METADATA_LEN)),
     offset |-> st.offset + PRODVER_METADATA_LEN]

EncMetadata(st, ver) ==
    [buf |-> strncpy(memset(st.buf, st.offset, 0, PRODVER_METADATA_LEN),
                     st.offset, ver.metadata, PRODVER_METADATA_LEN),
     offset |-> st.offset + PRODVER_METADATA_LEN]

EncCommit(st, ver) ==
    [buf |-> strncpy(memset(st.buf, st.offset, 0, PRODVER_COMMIT_LEN),
                     st.offset, ver.commitHash, PRODVER_COMMIT_LEN),
     offset |-> st.offset + PRODVER_COMMIT_LEN]

EncDate(st, ver) ==
    LET d == ver.date
        o == st.offset
        b0 == Store(st.buf, o,     ToChar(Low8(Shr64(d, 56))))
        b1 == Store(b0,     o + 1, ToChar(Low8(Shr64(d, 48))))
        b2 == Store(b1,     o + 2, ToChar(Low8(Shr64(d, 40))))
        b3 == Store(b2,     o + 3, ToChar(Low8(Shr64(d, 32))))
        b4 == Store(b3,     o + 4, ToChar(Low8(Shr64(d, 24))))
        b5 == Store(b4,     o + 5, ToChar(Low8(Shr64(d, 16))))
        b6 == Store(b5,     o + 6, ToChar(Low8(Shr64(d, 8))))
        b7 == Store(b6,     o + 7, ToChar(Low8(d)))
    IN  [buf |-> b7, offset |-> o + 8]

\* returns the value returned and the destination buffer after the call
prodVersionEncodeBytes(dst, len, ver) ==
    IF EncodeArgsInvalid(dst, len, ver)
    THEN [ret |-> 0, buf |-> dst]
    ELSE LET s0 == [buf |-> dst, offset |-> 0]
             s1 == EncStructVer(s0)
             s2 == EncProduct(s1, ver)
             s3 == EncSemver(s2, ver)
             s4 == EncChannel(s3, ver)
             s5 == EncMetadata(s4, ver)
             s6 == EncCommit(s5, ver)
             s7 == EncDate(s6, ver)
         IN  [ret |-> s7.offset, buf |-> s7.buf]

\* ------------------------------------------------------------------------
\* C: prodVersionDecodeBytes, statement by statement.  st holds the output
\* record, the running offset, the offsets of buf read so far and whether
\* the call is still going.
\* ------------------------------------------------------------------------
DecodeArgsInvalid_Strict(src, len, out) ==
    src = NULL \/ out = NULLV \/ len # PRODVER_ENCODED_LEN

DecodeArgsInvalid(src, len, out) ==
    src = NULL \/ out = NULLV \/ len < PRODVER_ENCODED_LEN

\* a tag check that lets the tag 0 through
DecStructVer_AcceptsZero(st, src) ==
    LET structVer == U8(CharVal(src[st.offset]))
    IN  [st EXCEPT !.offset = st.offset + 1,
                   !.reads = st.reads \cup {st.offset},
                   !.ok = ~(structVer > PRODVER_STRUCTVER)]

\* a tag check that clears the output record when it fails
DecStructVer_ClearsOutput(st, src) ==
    LET structVer == U8(CharVal(src[st.offset]))
    IN  [st EXCEPT !.offset = st.offset + 1,
                   !.reads = st.reads \cup {st.offset},
                   !.ok = ~(structVer # PRODVER_STRUCTVER),
                   !.out = IF structVer # PRODVER_STRUCTVER
                           THEN [product |-> [i \in DOMAIN st.out.product |-> 0],
                                 major |-> 0, minor |-> 0, patch |-> 0,
                                 build |-> 0, releaseChannel |-> 0,
                                 metadata |-> [i \in DOMAIN st.out.metadata |-> 0],
                                 commitHash |-> [i \in DOMAIN st.out.commitHash |-> 0],
                                 date |-> U64Zero]
                           ELSE st.out]

DecStructVer(st, src) ==
    LET structVer == U8(CharVal(src[st.offset]))
    IN  [st EXCEPT !.offset = st.offset + 1,
                   !.reads = st.reads \cup {st.offset},
                   !.ok = ~(structVer # PRODVER_STRUCTVER)]

DecProduct(st, src) ==
    [st EXCEPT !.out.product =
                   Store(memcpy(st.out.product, 0, src, st.offset,
                                PRODVER_PRODUCT_LEN),
                         PRODVER_PRODUCT_LEN, 0),
               !.reads = st.reads \cup
                         (st.offset..(st.offset + PRODVER_PRODUCT_LEN - 1)),
               !.offset = st.offset + PRODVER_PRODUCT_LEN]

\* (uint16_t)(((uint8_t)buf[offset] << 8) | (uint8_t)buf[offset + 1])
DecU16(src, offset) ==
    U16(BitOr(Shl(U8(CharVal(src[offset])), 8), U8(CharVal(src[offset + 1]))))

DecSemver(st, src) ==
    LET o == st.offset
    IN  [st EXCEPT !.out.major = DecU16(src, o),
                   !.out.minor = DecU16(src, o + 2),
                   !.out.patch = DecU16(src, o + 4),
                   !.out.build = DecU16(src, o + 6),
                   !.reads = st.reads \cup (o..(o + 7)),
                   !.offset = o + 8]

\* (prodVersionChannel_t)buf[offset++]: the char value converted to the
\* enumeration's integer type, taken here to be int
DecChannel(st, src) ==
    [st EXCEPT !.out.releaseChannel = CharVal(src[st.offset]),
               !.reads = st.reads \cup {st.offset},
               !.offset = st.offset + 1]

DecMetadata(st, src) ==
    [st EXCEPT !.out.metadata =
                   Store(memcpy(st.out.metadata, 0, src, st.offset,
                                PRODVER_METADATA_LEN),
                         PRODVER_METADATA_LEN, 0),
               !.reads = st.reads \cup
                         (st.offset..(st.offset + PRODVER_METADATA_LEN - 1)),
               !.offset = st.offset + PRODVER_METADATA_LEN]

DecCommit(st, src) ==
    [st EXCEPT !.out.commitHash =
                   Store(memcpy(st.out.commitHash, 0, src, st.offset,
                                PRODVER_COMMIT_LEN),
                         PRODVER_COMMIT_LEN, 0),
               !.reads = st.reads \cup
                         (st.offset..(st.offset + PRODVER_COMMIT_LEN - 1)),
               !.offset = st.offset + PRODVER_COMMIT_LEN]

DecDate(st, src) ==
    LET o == st.offset
        B(k) == ToU64(U8(CharVal(src[o + k])))
        d0 == Or64(U64Zero, Shl64(B(0), 56))
        d1 == Or64(d0, Shl64(B(1), 48))
        d2 == Or64(d1, Shl64(B(2), 40))
        d3 == Or64(d2, Shl64(B(3), 32))
        d4 == Or64(d3, Shl64(B(4), 24))
        d5 == Or64(d4, Shl64(B(5), 16))
        d6 == Or64(d5, Shl64(B(6), 8))
        d7 == Or64(d6, B(7))
    IN  [st EXCEPT !.out.date = d7,
                   !.reads = st.reads \cup (o..(o + 7)),
                   !.offset = o + 8]

\* returns the result, the output record after the call and the offsets read
prodVersionDecodeBytes(src, len, out) ==
    IF DecodeArgsInvalid(src, len, out)
    THEN [ret |-> FALSE, out |-> out, reads |-> {}]
    ELSE LET s0 == [out |-> out, offset |-> 0, reads |-> {}, ok |-> TRUE]
             s1 == DecStructVer(s0, src)
         IN  IF ~s1.ok
             THEN [ret |-> FALSE, out |-> s1.out, reads |-> s1.reads]
             ELSE LET s2 == DecProduct(s1, src)
                      s3 == DecSemver(s2, src)
                      s4 == DecChannel(s3, src)
                      s5 == DecMetadata(s4, src)
                      s6 == DecCommit(s5, src)
                      s7 == DecDate(s6, src)
                  IN  [ret |-> TRUE, out |-> s7.out, reads |-> s7.reads]

\* ------------------------------------------------------------------------
\* C#: strings, arrays and the ASCII encoding
\* ------------------------------------------------------------------------
EmptyString == [i \in {} |-> 0]

Length(s) == Cardinality(DOMAIN s)

\* s.Substring(start, n)
Substring(s, start, n) == [i \in 0..(n - 1) |-> s[start + i]]

\* s.TrimEnd('\0')
TrimEnd(s) ==
    LET n == CHOOSE k \in 0..Length(s) :
                 /\ (k = 0 \/ s[k - 1] # 0)
                 /\ \A j \in k..(Length(s) - 1) : s[j] = 0
    IN  Substring(s, 0, n)

\* s.IndexOf('\0')
IndexOf(s) ==
    IF \E i \in DOMAIN s : s[i] = 0
    THEN CHOOSE i \in DOMAIN s : s[i] = 0 /\ \A j \in 0..(i - 1) : s[j] # 0
    ELSE -1

\* Encoding.ASCII.GetBytes(s): a code unit above 0x7F becomes '?'
ASCII_GetBytes(s) == [i \in DOMAIN s |-> IF s[i] > 127 THEN 63 ELSE s[i]]

\* Encoding.ASCII.GetString(buffer, offset, length): a byte above 0x7F
\* becomes '?'
ASCII_GetString(buffer, offset, length) ==
    [i \in 0..(length - 1) |->
        IF buffer[offset + i] > 127 THEN 63 ELSE buffer[offset + i]]

\* src.CopyTo(buffer, offset)
CopyTo(src, buffer, offset) ==
    [i \in DOMAIN buffer |->
        IF i \in offset..(offset + Length(src) - 1)
        THEN src[i - offset] ELSE buffer[i]]

\* new byte[n]
NewBytes(n) == [i \in 0..(n - 1) |-> 0]

\* ------------------------------------------------------------------------
\* C#: VersionInfo
\* ------------------------------------------------------------------------
\* new VersionInfo()
NewVersionInfo ==
    [_product |-> NULL, _major |-> 0, _minor |-> 0, _patch |-> 0,
     _build |-> 0, _releaseChannel |-> 0, _metadata |-> NULL,
     _commitHash |-> NULL, _unixTimestamp |-> U64Zero]

\* the value stored by the setter of a text property of width size
SetText(value, size) ==
    IF value # NULL /\ Length(value) > size
    THEN Substring(value, 0, size)
    ELSE IF value = NULL THEN EmptyString ELSE value

\* the value returned by the getter of a text property
GetText(field) == TrimEnd(IF field = NULL THEN EmptyString ELSE field)

Product(v) == GetText(v._product)
Metadata(v) == GetText(v._metadata)
CommitHash(v) == GetText(v._commitHash)

SetProduct(v, value) == [v EXCEPT !._product = SetText(value, PRODUCT_SIZE)]
SetMetadata(v, value) == [v EXCEPT !._metadata = SetText(value, METADATA_SIZE)]
SetCommitHash(v, value) ==
    [v EXCEPT !._commitHash = SetText(value, COMMIT_HASH_SIZE)]

\* VersionInfo.Encode
Encode(v) ==
    LET b0 == Store(NewBytes(64), 0, ENCODING_VERSION)
        o1 == 1
        b1 == CopyTo(ASCII_GetBytes(Product(v)), b0, o1)
        o2 == o1 + PRODUCT_SIZE
        b2 == Store(Store(b1, o2, U8(Shr(v._major, 8))), o2 + 1, U8(v._major))
        b3 == Store(Store(b2, o2 + 2, U8(Shr(v._minor, 8))), o2 + 3, U8(v._minor))
        b4 == Store(Store(b3, o2 + 4, U8(Shr(v._patch, 8))), o2 + 5, U8(v._patch))
        b5 == Store(Store(b4, o2 + 6, U8(Shr(v._build, 8))), o2 + 7, U8(v._build))
        o3 == o2 + 8
        b6 == Store(b5, o3, U8(v._releaseChannel))
        o4 == o3 + 1
        b7 == CopyTo(ASCII_GetBytes(Metadata(v)), b6, o4)
        o5 == o4 + METADATA_SIZE
        b8 == CopyTo(ASCII_GetBytes(CommitHash(v)), b7, o5)
        o6 == o5 + COMMIT_HASH_SIZE
        t  == v._unixTimestamp
        T(s) == U8(Shr64(t, s)[4])
    IN  [k \in DOMAIN b8 |->
            IF k \in o6..(o6 + 7) THEN T(56 - 8 * (k - o6)) ELSE b8[k]]

\* VersionInfo.GetCString
GetCString(buffer, offset, length) ==
    LET str == ASCII_GetString(buffer, offset, length)
        nullIndex == IndexOf(str)
    IN  IF nullIndex >= 0 THEN Substring(str, 0, nullIndex) ELSE str

\* VersionInfo.Decode: the result ("true", "false", or "throw" for the
\* NotImplementedException), the out parameter and the offsets read
Decode(buffer) ==
    LET v0 == NewVersionInfo
    IN  IF buffer = NULL \/ Length(buffer) # 64
        THEN [ret |-> "false", version |-> v0, reads |-> {}]
        ELSE
        LET ver == buffer[0]
        IN  IF ver # 1
            THEN [ret |-> "throw", version |-> v0, reads |-> {0}]
            ELSE
            LET o1 == 1
                v1 == SetProduct(v0, GetCString(buffer, o1, PRODUCT_SIZE))
                o2 == o1 + PRODUCT_SIZE
                W(o) == U16(BitOr(Shl(buffer[o], 8), buffer[o + 1]))
                v2 == [v1 EXCEPT !._major = W(o2), !._minor = W(o2 + 2),
                                 !._patch = W(o2 + 4), !._build = W(o2 + 6)]
                o3 == o2 + 8
                v3 == [v2 EXCEPT !._releaseChannel = buffer[o3]]
                o4 == o3 + 1
                v4 == SetMetadata(v3, GetCString(buffer, o4, METADATA_SIZE))
                o5 == o4 + METADATA_SIZE
                v5 == SetCommitHash(v4, GetCString(buffer, o5, COMMIT_HASH_SIZE))
                o6 == o5 + COMMIT_HASH_SIZE
                B(k) == ToU64(buffer[o6 + k])
                ts == Or64(Or64(Or64(Or64(Or64(Or64(Or64(
                          Shl64(B(0), 56), Shl64(B(1), 48)), Shl64(B(2), 40)),
                          Shl64(B(3), 32)), Shl64(B(4), 24)), Shl64(B(5), 16)),
                          Shl64(B(6), 8)), B(7))
            IN  [ret |-> "true",
                 version |-> [v5 EXCEPT !._unixTimestamp = ts],
                 reads |-> 0..(o6 + 7)]

\* ------------------------------------------------------------------------
\* Inputs: the records, destination buffers and output records callers
\* supply
\* ------------------------------------------------------------------------
\* what is put at the second position of a text: its regular character, a
\* NUL, or a character outside 7-bit ASCII
Specials == {"plain", "nul", "high"}

SpecialChar(special, regular) ==
    IF special = "nul" THEN 0 ELSE IF special = "high" THEN 233 ELSE regular

\* a text of n characters base, base+1, ... with the special character at
\* its second position (its first when n < 2)
Text(base, n, special) ==
    [i \in 0..(n - 1) |->
        IF i = (IF n >= 2 THEN 1 ELSE 0)
        THEN SpecialChar(special, base + i) ELSE base + i]

\* how long a text is in a slot of width w: empty, one character, one
\* short of w, exactly w, and up to MaxExtra more than w
LenChoices == 0..(3 + MaxExtra)

TextLen(w, c) == IF c = 0 THEN 0 ELSE IF c = 1 THEN 1 ELSE w + (c - 3)

ProductText(c, sp) == Text(65, TextLen(PRODVER_PRODUCT_LEN, c), sp)
MetadataText(c, sp) == Text(97, TextLen(PRODVER_METADATA_LEN, c), sp)
CommitText(c, sp) == Text(48, TextLen(PRODVER_COMMIT_LEN, c), sp)

\* the integer fields: major, minor, patch, build, date
IntSamples ==
    << [major |-> 1, minor |-> 2, patch |-> 3, build |-> 7,
        date |-> <<0, 0, 25939, 61696>>],
       [major |-> 258, minor |-> 32768, patch |-> 65535, build |-> 255,
        date |-> <<33023, 258, 65280, 32640>>],
       [major |-> 0, minor |-> 65280, patch |-> 32640, build |-> 0,
        date |-> <<65535, 65535, 65535, 65535>>],
       [major |-> 32769, minor |-> 255, patch |-> 128, build |-> 65535,
        date |-> <<32768, 0, 0, 128>>] >>

\* release channels: release, beta and a value no tag stands for
ChannelSamples == {VERSION_CHANNEL_RELEASE, VERSION_CHANNEL_BETA, 200}

\* a char array of w + 1 bytes holding the text, NUL-filled after it; a text
\* of more than w characters leaves the array without a terminator
CharArray(text, w) ==
    [i \in 0..w |-> IF i < Length(text) THEN text[i] ELSE 0]

\* the prodVersion_t a C caller fills in
MakeVersion(c, sp, k, ch) ==
    [product |-> CharArray(ProductText(c, sp), PRODVER_PRODUCT_LEN),
     major |-> IntSamples[k].major,
     minor |-> IntSamples[k].minor,
     patch |-> IntSamples[k].patch,
     build |-> IntSamples[k].build,
     releaseChannel |-> ch,
     metadata |-> CharArray(MetadataText(c, sp), PRODVER_METADATA_LEN),
     commitHash |-> CharArray(CommitText(c, sp), PRODVER_COMMIT_LEN),
     date |-> IntSamples[k].date]

\* the VersionInfo a C# caller builds through the property setters
MakeVersionInfo(c, sp, k, ch) ==
    LET v1 == SetProduct(NewVersionInfo, ProductText(c, sp))
        v2 == SetMetadata(v1, MetadataText(c, sp))
        v3 == SetCommitHash(v2, CommitText(c, sp))
    IN  [v3 EXCEPT !._major = IntSamples[k].major,
                   !._minor = IntSamples[k].minor,
                   !._patch = IntSamples[k].patch,
                   !._build = IntSamples[k].build,
                   !._releaseChannel = ch,
                   !._unixTimestamp = IntSamples[k].date]

\* a buffer of n bytes all equal to fill
Filled(n, fill) == [i \in 0..(n - 1) |-> fill]

Fills == {0, 170}

\* destination buffers: one byte short, exact, and up to MaxSlack longer
DestLens == (PRODVER_ENCODED_LEN - 1)..(PRODVER_ENCODED_LEN + MaxSlack)

Priors == {Filled(n, f) : n \in DestLens, f \in Fills}

\* what the caller's output record holds before the decoder is called
StaleVersion ==
    [product |-> Filled(PRODVER_PRODUCT_LEN + 1, 238),
     major |-> 61166, minor |-> 61166, patch |-> 61166, build |-> 61166,
     releaseChannel |-> 110,
     metadata |-> Filled(PRODVER_METADATA_LEN + 1, 238),
     commitHash |-> Filled(PRODVER_COMMIT_LEN + 1, 238),
     date |-> <<61166, 61166, 61166, 61166>>]

\* the first PRODVER_ENCODED_LEN bytes of src, cut or extended to n bytes
Resized(src, n) ==
    [i \in 0..(n - 1) |-> IF i < PRODVER_ENCODED_LEN THEN src[i] ELSE 90]

\* ------------------------------------------------------------------------
\* The pipeline: a caller builds a record, encodes it, the bytes are
\* delivered, a consumer decodes them
\* ------------------------------------------------------------------------
\* no formatter has been called
FormatIdle ==
    /\ ret_str = NULL
    /\ buf_len = 0
    /\ strRet = -1
    /\ strWrites = {}
    /\ csString = NULL

Init ==
    /\ charSigned \in BOOLEAN
    /\ littleEndian = TRUE
    /\ FormatIdle
    /\ \E c \in LenChoices, sp \in Specials,
          k \in DOMAIN IntSamples, ch \in ChannelSamples :
          /\ texts = [product |-> ProductText(c, sp),
                      metadata |-> MetadataText(c, sp),
                      commit |-> CommitText(c, sp)]
          /\ version = MakeVersion(c, sp, k, ch)
          /\ vi = MakeVersionInfo(c, sp, k, ch)
    /\ ret_buf \in {p \in Priors : p[0] # 0} \cup {NULL}
    /\ encRet = -1
    /\ csBuffer = NULL
    /\ buf = NULL
    /\ ret_version = StaleVersion
    /\ decRet = "none"
    /\ decReads = {}
    /\ csVersion = NewVersionInfo
    /\ csRet = "none"
    /\ csReads = {}

\* prodVersionEncodeBytes(ret_buf, sizeof ret_buf, &version)
EncodeC ==
    /\ encRet = -1
    /\ LET len == IF ret_buf = NULL THEN PRODVER_ENCODED_LEN
                                    ELSE ArrayLen(ret_buf)
           r == prodVersionEncodeBytes(ret_buf, len, version)
       IN  /\ encRet' = r.ret
           /\ ret_buf' = r.buf
    /\ UNCHANGED <<charSigned, texts, version, vi, csBuffer, buf, ret_version,
                   decRet, decReads, csVersion, csRet, csReads>>
    /\ UNCHANGED <<formatVars, littleEndian>>

\* csBuffer = VersionInfo.Encode(vi)
EncodeCS ==
    /\ csBuffer = NULL
    /\ csBuffer' = Encode(vi)
    /\ UNCHANGED <<charSigned, texts, version, ret_buf, encRet, vi, buf,
                   ret_version, decRet, decReads, csVersion, csRet, csReads>>
    /\ UNCHANGED <<formatVars, littleEndian>>

\* the encoded bytes of one implementation reach the consumers
Deliver ==
    /\ buf = NULL
    /\ \/ /\ encRet > 0
          /\ buf' = Resized(ret_buf, PRODVER_ENCODED_LEN)
       \/ /\ csBuffer # NULL
          /\ buf' = csBuffer
    /\ UNCHANGED <<charSigned, texts, version, ret_buf, encRet, vi, csBuffer,
                   ret_version, decRet, decReads, csVersion, csRet, csReads>>
    /\ UNCHANGED <<formatVars, littleEndian>>

\* prodVersionDecodeBytes(buf, sizeof buf, &ret_version)
DecodeC ==
    /\ buf # NULL
    /\ decRet = "none"
    /\ LET r == prodVersionDecodeBytes(buf, ArrayLen(buf), ret_version)
       IN  /\ decRet' = IF r.ret THEN "true" ELSE "false"
           /\ ret_version' = r.out
           /\ decReads' = r.reads
    /\ UNCHANGED <<charSigned, texts, version, ret_buf, encRet, vi, csBuffer, buf,
                   csVersion, csRet, csReads>>
    /\ UNCHANGED <<formatVars, littleEndian>>

\* VersionInfo.Decode(buf, out csVersion)
DecodeCS ==
    /\ buf # NULL
    /\ csRet = "none"
    /\ LET r == Decode(buf)
       IN  /\ csRet' = r.ret
           /\ csVersion' = r.version
           /\ csReads' = r.reads
    /\ UNCHANGED <<charSigned, texts, version, ret_buf, encRet, vi, csBuffer, buf,
                   ret_version, decRet, decReads>>
    /\ UNCHANGED <<formatVars, littleEndian>>

Next == EncodeC \/ EncodeCS \/ Deliver \/ DecodeC \/ DecodeCS

Spec == Init /\ [][Next]_vars

\* ------------------------------------------------------------------------
\* Logical values of records
\* ------------------------------------------------------------------------
\* the string a char array holds: its bytes before the first NUL
CStr(a) == Substring(a, 0, strnlen(a, ArrayLen(a)))

\* the field values of a prodVersion_t
CRecord(v) ==
    [product |-> CStr(v.product), major |-> v.major, minor |-> v.minor,
     patch |-> v.patch, build |-> v.build,
     releaseChannel |-> v.releaseChannel, metadata |-> CStr(v.metadata),
     commitReference |-> CStr(v.commitHash), timestamp |-> v.date]

\* the field values of a VersionInfo, as its properties return them
CSRecord(v) ==
    [product |-> Product(v), major |-> v._major, minor |-> v._minor,
     patch |-> v._patch, build |-> v._build,
     releaseChannel |-> v._releaseChannel, metadata |-> Metadata(v),
     commitReference |-> CommitHash(v), timestamp |-> v._unixTimestamp]

\* every text of the C record fits its slot
FitsC(v) ==
    /\ strnlen(v.product, PRODVER_PRODUCT_LEN + 1) <= PRODVER_PRODUCT_LEN
    /\ strnlen(v.metadata, PRODVER_METADATA_LEN + 1) <= PRODVER_METADATA_LEN
    /\ strnlen(v.commitHash, PRODVER_COMMIT_LEN + 1) <= PRODVER_COMMIT_LEN

\* every text of the C# record fits its slot
FitsCS(v) ==
    /\ Length(Product(v)) <= PRODUCT_SIZE
    /\ Length(Metadata(v)) <= METADATA_SIZE
    /\ Length(CommitHash(v)) <= COMMIT_HASH_SIZE

\* no text of the C# record contains a NUL character
NoNul(v) ==
    /\ \A i \in DOMAIN Product(v) : Product(v)[i] # 0
    /\ \A i \in DOMAIN Metadata(v) : Metadata(v)[i] # 0
    /\ \A i \in DOMAIN CommitHash(v) : CommitHash(v)[i] # 0

\* the first 64 bytes of a buffer
First64(b) == Resized(b, PRODVER_ENCODED_LEN)

\* the decoders were handed exactly what the C / the C# encoder produced
DeliveredFromC == encRet > 0 /\ buf = First64(ret_buf)
DeliveredFromCS == csBuffer # NULL /\ buf = csBuffer

\* ------------------------------------------------------------------------
\* C1 -- Round-trip: in each implementation, for every record whose texts
\* fit their slots (and hold no NUL character), decoding the encoder's
\* output succeeds and yields a record equal to the original in every field.
\* ------------------------------------------------------------------------
RoundTrip ==
    /\ (DeliveredFromC /\ FitsC(version) /\ decRet # "none")
          => (decRet = "true" /\ CRecord(ret_version) = CRecord(version))
    /\ (DeliveredFromCS /\ FitsCS(vi) /\ NoNul(vi) /\ csRet # "none")
          => (csRet = "true" /\ CSRecord(csVersion) = CSRecord(vi))

\* ------------------------------------------------------------------------
\* C2 -- Interoperability: for every record (texts within their widths) the
\* two encoders produce the same 64 bytes, and each decoder applied to the
\* other implementation's output succeeds with the same field values.
\* ------------------------------------------------------------------------
Interoperable ==
    (FitsC(version) /\ FitsCS(vi) /\ CRecord(version) = CSRecord(vi)) =>
        /\ (encRet > 0 /\ csBuffer # NULL)
              => First64(ret_buf) = csBuffer
        /\ (DeliveredFromC /\ csRet # "none")
              => (csRet = "true" /\ CSRecord(csVersion) = CRecord(version))
        /\ (DeliveredFromCS /\ decRet # "none")
              => (decRet = "true" /\ CRecord(ret_version) = CSRecord(vi))

\* ------------------------------------------------------------------------
\* C3 -- Encode has a single failure mode: given a destination, it returns
\* exactly 64 whenever the destination has at least 64 bytes, whatever the
\* record holds, and 0 exactly when the destination has fewer.
\* ------------------------------------------------------------------------
EncodeTotal ==
    (encRet # -1 /\ ret_buf # NULL) =>
        /\ (ArrayLen(ret_buf) >= 64) => encRet = 64
        /\ (encRet = 0) <=> (ArrayLen(ret_buf) < 64)

\* an over-long product and an unknown channel encoded into 64 bytes
EncodeTotalWitness ==
    /\ encRet = 64
    /\ ArrayLen(ret_buf) = 64
    /\ strnlen(version.product, PRODVER_PRODUCT_LEN + 1) > PRODVER_PRODUCT_LEN
    /\ version.releaseChannel = 200

\* ------------------------------------------------------------------------
\* C4 -- Layout: the encoder writes the tag 1 at byte 0, product at 1..24,
\* major at 25..26, minor at 27..28, patch at 29..30, build at 31..32, the
\* channel at 33, metadata at 34..48, commit at 49..55 and the timestamp at
\* 56..63; the ten fields cover the 64 bytes without overlap and the
\* decoder reads each field from the same offsets.
\* ------------------------------------------------------------------------
\* the byte ranges of the ten fields, as the claim lists them
FieldRanges ==
    <<0..0, 1..24, 25..26, 27..28, 29..30, 31..32, 33..33, 34..48, 49..55,
      56..63>>

\* the bytes a text slot of width w holds for the char array a
SlotBytes(a, w) == [i \in 0..(w - 1) |-> IF i < strnlen(a, w) THEN a[i] ELSE 0]

\* the bytes of b at off..off+n-1
Slice(b, off, n) == [i \in 0..(n - 1) |-> b[off + i]]

\* the two bytes of a 16-bit value, most significant first
Hi(v) == v \div 256
Lo(v) == v % 256

Layout ==
    /\ \A k \in 0..63 : Cardinality({f \in DOMAIN FieldRanges :
                                        k \in FieldRanges[f]}) = 1
    /\ (encRet > 0) =>
          /\ encRet = 64
          /\ ret_buf[0] = 1
          /\ Slice(ret_buf, 1, 24) = SlotBytes(version.product, 24)
          /\ <<ret_buf[25], ret_buf[26]>> = <<Hi(version.major), Lo(version.major)>>
          /\ <<ret_buf[27], ret_buf[28]>> = <<Hi(version.minor), Lo(version.minor)>>
          /\ <<ret_buf[29], ret_buf[30]>> = <<Hi(version.patch), Lo(version.patch)>>
          /\ <<ret_buf[31], ret_buf[32]>> = <<Hi(version.build), Lo(version.build)>>
          /\ ret_buf[33] = version.releaseChannel % 256
          /\ Slice(ret_buf, 34, 15) = SlotBytes(version.metadata, 15)
          /\ Slice(ret_buf, 49, 7) = SlotBytes(version.commitHash, 7)
          /\ Slice(ret_buf, 56, 8) = U64Bytes(version.date)
    /\ (decRet = "true") =>
          /\ buf[0] = 1
          /\ Slice(ret_version.product, 0, 24) = Slice(buf, 1, 24)
          /\ ret_version.major = 256 * buf[25] + buf[26]
          /\ ret_version.minor = 256 * buf[27] + buf[28]
          /\ ret_version.patch = 256 * buf[29] + buf[30]
          /\ ret_version.build = 256 * buf[31] + buf[32]
          /\ ret_version.releaseChannel % 256 = buf[33]
          /\ Slice(ret_version.metadata, 0, 15) = Slice(buf, 34, 15)
          /\ Slice(ret_version.commitHash, 0, 7) = Slice(buf, 49, 7)
          /\ U64Bytes(ret_version.date) = Slice(buf, 56, 8)
          /\ decReads = 0..63

\* a record whose fields all differ has been encoded and decoded
LayoutWitness ==
    /\ encRet = 64
    /\ DeliveredFromC
    /\ decRet = "true"
    /\ version.major = 258
    /\ strnlen(version.product, 25) = 24
    /\ strnlen(version.metadata, 16) = 15

\* ------------------------------------------------------------------------
\* C5 -- Big-endian integers: the encoder writes major, minor, patch, build
\* and the timestamp most significant byte first (major = 0x0102 gives
\* byte 25 = 0x01 and byte 26 = 0x02), and the decoder's reassembly returns
\* exactly the original unsigned values, with no sign extension, on builds
\* with signed and with unsigned char.
\* ------------------------------------------------------------------------
BigEndian ==
    /\ (encRet > 0 /\ version.major = 258)
          => (ret_buf[25] = 1 /\ ret_buf[26] = 2)
    /\ (encRet > 0) =>
          /\ \A f \in 0..3 :
                LET v == <<version.major, version.minor, version.patch,
                           version.build>>[f + 1]
                IN  ret_buf[25 + 2 * f] * 256 + ret_buf[26 + 2 * f] = v
          /\ \A j \in 1..4 :
                ret_buf[56 + 2 * (j - 1)] * 256 + ret_buf[57 + 2 * (j - 1)]
                    = version.date[j]
    /\ (DeliveredFromC /\ decRet = "true") =>
          /\ ret_version.major = version.major
          /\ ret_version.minor = version.minor
          /\ ret_version.patch = version.patch
          /\ ret_version.build = version.build
          /\ ret_version.date = version.date

\* values with the top bit of a byte and of the word set went through a
\* build whose char is signed
BigEndianWitness ==
    /\ charSigned
    /\ DeliveredFromC
    /\ decRet = "true"
    /\ version.major = 258
    /\ version.minor = 32768
    /\ version.patch = 65535
    /\ version.date[1] >= 32768
    /\ ret_version.date = version.date

\* ------------------------------------------------------------------------
\* C6 -- Truncation: when the product, metadata or commit text is longer
\* than its width W (24, 15, 7), encode followed by decode yields exactly
\* the first W characters of the source text for that field.
\* ------------------------------------------------------------------------
\* the text has no NUL character
IsText(t) == \A i \in DOMAIN t : t[i] # 0

Truncation ==
    /\ (DeliveredFromC /\ decRet = "true") =>
          /\ strnlen(version.product, 25) > 24
                => CStr(ret_version.product) = Substring(version.product, 0, 24)
          /\ strnlen(version.metadata, 16) > 15
                => CStr(ret_version.metadata) = Substring(version.metadata, 0, 15)
          /\ strnlen(version.commitHash, 8) > 7
                => CStr(ret_version.commitHash) = Substring(version.commitHash, 0, 7)
    /\ (DeliveredFromCS /\ csRet = "true") =>
          /\ (Length(texts.product) > 24 /\ IsText(texts.product))
                => Product(csVersion) = Substring(texts.product, 0, 24)
          /\ (Length(texts.metadata) > 15 /\ IsText(texts.metadata))
                => Metadata(csVersion) = Substring(texts.metadata, 0, 15)
          /\ (Length(texts.commit) > 7 /\ IsText(texts.commit))
                => CommitHash(csVersion) = Substring(texts.commit, 0, 7)

\* ------------------------------------------------------------------------
\* Decoding arbitrary buffers: a consumer is handed bytes of any origin
\* ------------------------------------------------------------------------
\* n bytes without structure, with bytes above 0x7F and zero bytes
PatternBody(n) == [i \in 0..(n - 1) |-> (37 * i + 11) % 256]

\* a well-formed encoding, cut or extended to n bytes
ValidBody(n) == Resized(Encode(MakeVersionInfo(3, "plain", 2, 200)), n)

\* buffers of every length around 64 with every value of the first byte,
\* and the empty buffer
DecodeInputs ==
    {[b EXCEPT ![0] = t] :
        b \in UNION {{PatternBody(n), ValidBody(n)} : n \in DestLens},
        t \in 0..255}
    \cup {Filled(0, 0)}

InitDecode ==
    /\ charSigned \in BOOLEAN
    /\ littleEndian = TRUE
    /\ FormatIdle
    /\ texts = [product |-> EmptyString, metadata |-> EmptyString,
                commit |-> EmptyString]
    /\ version = MakeVersion(0, "plain", 1, VERSION_CHANNEL_RELEASE)
    /\ vi = NewVersionInfo
    /\ ret_buf = NULL
    /\ encRet = -1
    /\ csBuffer = NULL
    /\ buf \in DecodeInputs
    /\ ret_version = StaleVersion
    /\ decRet = "none"
    /\ decReads = {}
    /\ csVersion = NewVersionInfo
    /\ csRet = "none"
    /\ csReads = {}

NextDecode == DecodeC \/ DecodeCS

SpecDecode == InitDecode /\ [][NextDecode]_vars

TagRejected ==
    (ArrayLen(buf) = 64 /\ buf[0] # 1) =>
        /\ decRet # "none" =>
              (decRet = "false" /\ decReads = {0}
               /\ ret_version = StaleVersion)
        /\ csRet # "none" =>
              (csRet = "throw" /\ csReads = {0}
               /\ csVersion = NewVersionInfo)

\* both decoders have rejected a buffer tagged 0xFF
TagRejectedWitness ==
    /\ ArrayLen(buf) = 64
    /\ buf[0] = 255
    /\ decRet = "false"
    /\ csRet = "throw"

\* ------------------------------------------------------------------------
\* C9 -- Decode never partially populates its output: a call that fails
\* leaves the C caller's record exactly as it was before the call, and
\* leaves the default record in the C# out parameter.
\* ------------------------------------------------------------------------
FailureLeavesOutput ==
    [][ /\ (decRet = "none" /\ decRet' = "false")
              => ret_version' = ret_version
        /\ (csRet = "none" /\ csRet' \in {"false", "throw"})
              => csVersion' = NewVersionInfo ]_vars

\* a wrong tag and a wrong length have both been rejected
FailureLeavesOutputWitness ==
    /\ decRet = "false"
    /\ csRet \in {"false", "throw"}
    /\ buf # NULL
    /\ ArrayLen(buf) >= 64
    /\ buf[0] = 0

\* ------------------------------------------------------------------------
\* C10 -- Encoder padding: in each text slot the bytes after the copied
\* characters are all zero, whatever the destination held before, so the
\* 64 bytes written depend on the record only.
\* ------------------------------------------------------------------------
\* the bytes of the slot of width w at off, from position n on, are zero
ZeroFrom(b, off, w, n) == \A i \in n..(w - 1) : b[off + i] = 0

PaddingZero ==
    /\ (encRet > 0) =>
          /\ ZeroFrom(ret_buf, 1, 24, strnlen(version.product, 24))
          /\ ZeroFrom(ret_buf, 34, 15, strnlen(version.metadata, 15))
          /\ ZeroFrom(ret_buf, 49, 7, strnlen(version.commitHash, 7))
          /\ \A p \in Priors :
                ArrayLen(p) = ArrayLen(ret_buf) =>
                    First64(prodVersionEncodeBytes(p, ArrayLen(p), version).buf)
                        = First64(ret_buf)
    /\ (csBuffer # NULL) =>
          /\ ZeroFrom(csBuffer, 1, 24, Length(Product(vi)))
          /\ ZeroFrom(csBuffer, 34, 15, Length(Metadata(vi)))
          /\ ZeroFrom(csBuffer, 49, 7, Length(CommitHash(vi)))

\* short texts were encoded into a destination that held non-zero bytes
PaddingZeroWitness ==
    /\ encRet = 64
    /\ ArrayLen(ret_buf) > 64
    /\ ret_buf[64] = 170
    /\ strnlen(version.product, 24) = 1
    /\ strnlen(version.metadata, 15) = 1
    /\ version.metadata[2] # 0
    /\ csBuffer # NULL

\* ------------------------------------------------------------------------
\* Decoding tagged buffers of any content and encoding the result again
\* ------------------------------------------------------------------------
\* where a text slot of width w has its zero byte: at its start, after one
\* character, in its last position, or nowhere (w)
ZeroAt(w) == {0, 1, w - 1, w}

\* a text slot of width w whose bytes are base, base+1, ... and non-zero
\* everywhere but at position z
DirtySlot(w, z, base) == [i \in 0..(w - 1) |-> IF i = z THEN 0 ELSE base + i]

\* 7-bit characters, and bytes above 0x7F
SlotBases == {65, 200}

\* a 64-byte buffer with tag 1, the three text slots as given and the
\* channel byte ch
TaggedBuffer(p, m, c, ch) ==
    [i \in 0..(PRODVER_ENCODED_LEN - 1) |->
        IF i = 0 THEN PRODVER_STRUCTVER
        ELSE IF i \in 1..24 THEN p[i - 1]
        ELSE IF i = 33 THEN ch
        ELSE IF i \in 34..48 THEN m[i - 34]
        ELSE IF i \in 49..55 THEN c[i - 49]
        ELSE PatternBody(PRODVER_ENCODED_LEN)[i]]

\* buffers whose slots have their zero byte at every place, followed by
\* non-zero bytes
DirtyBuffers ==
    {TaggedBuffer(DirtySlot(24, zp, b), DirtySlot(15, zm, b + 24),
                  DirtySlot(7, zc, b + 40), VERSION_CHANNEL_BETA) :
        zp \in ZeroAt(24), zm \in ZeroAt(15), zc \in ZeroAt(7), b \in SlotBases}

\* buffers with every value of the channel byte
ChannelBuffers ==
    {TaggedBuffer(DirtySlot(24, 4, 65), DirtySlot(15, 0, 97),
                  DirtySlot(7, 7, 48), ch) : ch \in 0..255}

\* buffers the C encoder has produced
EncoderOutputs ==
    {prodVersionEncodeBytes(Filled(PRODVER_ENCODED_LEN, 170),
                            PRODVER_ENCODED_LEN,
                            MakeVersion(c, sp, k, ch)).buf :
        c \in 0..3, sp \in {"plain", "high"}, k \in {1, 2},
        ch \in ChannelSamples}

RecodeInputs == DirtyBuffers \cup ChannelBuffers \cup EncoderOutputs

InitRecode ==
    /\ charSigned \in BOOLEAN
    /\ littleEndian = TRUE
    /\ FormatIdle
    /\ texts = [product |-> EmptyString, metadata |-> EmptyString,
                commit |-> EmptyString]
    /\ version = MakeVersion(0, "plain", 1, VERSION_CHANNEL_RELEASE)
    /\ vi = NewVersionInfo
    /\ ret_buf = Filled(PRODVER_ENCODED_LEN, 170)
    /\ encRet = -1
    /\ csBuffer = NULL
    /\ buf \in RecodeInputs
    /\ ret_version = StaleVersion
    /\ decRet = "none"
    /\ decReads = {}
    /\ csVersion = NewVersionInfo
    /\ csRet = "none"
    /\ csReads = {}

\* prodVersionEncodeBytes(ret_buf, sizeof ret_buf, &ret_version): the
\* decoded record is encoded again
ReencodeC ==
    /\ decRet = "true"
    /\ encRet = -1
    /\ LET r == prodVersionEncodeBytes(ret_buf, ArrayLen(ret_buf), ret_version)
       IN  /\ encRet' = r.ret
           /\ ret_buf' = r.buf
    /\ UNCHANGED <<charSigned, texts, version, vi, csBuffer, buf, ret_version,
                   decRet, decReads, csVersion, csRet, csReads>>
    /\ UNCHANGED <<formatVars, littleEndian>>

\* csBuffer = VersionInfo.Encode(csVersion)
ReencodeCS ==
    /\ csRet = "true"
    /\ csBuffer = NULL
    /\ csBuffer' = Encode(csVersion)
    /\ UNCHANGED <<charSigned, texts, version, ret_buf, encRet, vi, buf,
                   ret_version, decRet, decReads, csVersion, csRet, csReads>>
    /\ UNCHANGED <<formatVars, littleEndian>>

NextRecode == DecodeC \/ DecodeCS \/ ReencodeC \/ ReencodeCS

SpecRecode == InitRecode /\ [][NextRecode]_vars

\* ------------------------------------------------------------------------
\* C11 -- Decoder text rule: for every accepted 64-byte buffer and each
\* text slot, the decoded text is exactly the slot's bytes before the first
\* zero byte, or the whole slot when it holds no zero byte; no byte at or
\* after the first zero byte and no byte of the following field is part of
\* it.
\* ------------------------------------------------------------------------
\* the bytes of s before its first zero byte, all of s when it has none
BeforeZero(s) ==
    LET stop == {i \in DOMAIN s : s[i] = 0}
        n == IF stop = {} THEN Length(s)
             ELSE CHOOSE i \in stop : \A j \in stop : i <= j
    IN  [i \in 0..(n - 1) |-> s[i]]

TextRule ==
    /\ (decRet = "true" /\ ArrayLen(buf) = 64) =>
          /\ CStr(ret_version.product) = BeforeZero(Slice(buf, 1, 24))
          /\ CStr(ret_version.metadata) = BeforeZero(Slice(buf, 34, 15))
          /\ CStr(ret_version.commitHash) = BeforeZero(Slice(buf, 49, 7))
    /\ (csRet = "true") =>
          /\ Product(csVersion) = BeforeZero(Slice(buf, 1, 24))
          /\ Metadata(csVersion) = BeforeZero(Slice(buf, 34, 15))
          /\ CommitHash(csVersion) = BeforeZero(Slice(buf, 49, 7))

\* ------------------------------------------------------------------------
\* C12 -- Release channel is carried as a raw byte: for every byte value
\* 0..255 at offset 33 of a 64-byte buffer with tag 1, decode succeeds and
\* stores that value, and encoding the decoded record writes the same byte
\* value back at offset 33.
\* ------------------------------------------------------------------------
ChannelRaw ==
    (ArrayLen(buf) = 64 /\ buf[0] = 1) =>
        /\ decRet # "none" =>
              (decRet = "true" /\ ret_version.releaseChannel = buf[33])
        /\ encRet # -1 => (encRet = 64 /\ ret_buf[33] = buf[33])
        /\ csRet # "none" =>
              (csRet = "true" /\ csVersion._releaseChannel = buf[33])
        /\ csBuffer # NULL => csBuffer[33] = buf[33]

\* ------------------------------------------------------------------------
\* Text building for the formatters.  Texts are put together as sequences
\* of character codes and kept, like all strings, indexed from 0.
\* ------------------------------------------------------------------------
\* the string with the characters of the sequence q
Str(q) == [i \in 0..(Len(q) - 1) |-> q[i + 1]]

\* the characters of the string s as a sequence
Chars(s) == [i \in 1..Length(s) |-> s[i - 1]]

\* %u, and ToString() of a ushort: the decimal digits of n, most
\* significant first
RECURSIVE Decimal(_)
Decimal(n) ==
    IF n < 10 THEN <<48 + n>>
    ELSE Append(Decimal(n \div 10), 48 + (n % 10))

\* %c: the int argument converted to unsigned char
FormatChar(x) == <<U8(x)>>

\* %s: the bytes of the array up to its NUL
FormatString(a) == Chars(CStr(a))

\* ------------------------------------------------------------------------
\* C: prodVersionToString
\* ------------------------------------------------------------------------
ToStringArgsInvalid(ver, dst, len) == ver = NULLV \/ dst = NULL \/ len = 0

\* version->product[0] ? version->product : ""
ProductPart(ver) ==
    IF ver.product[0] # 0 THEN FormatString(ver.product) ELSE << >>

\* the separator printed also when metadata is empty
MetadataPart_AlwaysDash(ver) ==
    <<45>> \o FormatString(ver.metadata)

\* version->metadata[0] ? "-" : "", then version->metadata
MetadataPart(ver) ==
    (IF ver.metadata[0] # 0 THEN <<45>> ELSE << >>)
        \o FormatString(ver.metadata)

\* the commit reference printed whatever the channel
CommitPart_Always(ver) ==
    <<32, 40>> \o FormatString(ver.commitHash) \o <<41>>

\* " (", version->commitHash, ")" when the channel is not the release one
CommitPart(ver) ==
    (IF ver.releaseChannel # VERSION_CHANNEL_RELEASE THEN <<32, 40>> ELSE << >>)
    \o (IF ver.releaseChannel # VERSION_CHANNEL_RELEASE
        THEN FormatString(ver.commitHash) ELSE << >>)
    \o (IF ver.releaseChannel # VERSION_CHANNEL_RELEASE THEN <<41>> ELSE << >>)

\* what "%s %u.%u.%u%c%s%s%s%s%s%c" expands to; the last conversion, %c,
\* is given version->build
Rendered(ver) ==
    ProductPart(ver) \o <<32>>
    \o Decimal(ver.major) \o <<46>> \o Decimal(ver.minor) \o <<46>>
    \o Decimal(ver.patch)
    \o FormatChar(ToChar(ver.releaseChannel))
    \o MetadataPart(ver)
    \o CommitPart(ver)
    \o FormatChar(ver.build)

\* snprintf(dst, n, ...) for n >= 1 and the expansion out: at most n - 1
\* characters and a NUL are stored, the length of out is returned
snprintf(dst, n, out) ==
    LET k == IF Len(out) < n - 1 THEN Len(out) ELSE n - 1
    IN  [ret |-> Len(out),
         buf |-> [i \in DOMAIN dst |->
                     IF i < k THEN out[i + 1] ELSE IF i = k THEN 0 ELSE dst[i]],
         writes |-> 0..k]

\* an overflow check that lets a rendering of exactly buf_len characters
\* through
Overflowed_OffByOne(written, len) == written < 0 \/ written > len

\* written < 0 || (size_t)written >= buf_len
Overflowed(written, len) == written < 0 \/ written >= len

\* returns the value returned, the output array after the call and the
\* indexes of it the call has written
prodVersionToString(ver, dst, len) ==
    IF ToStringArgsInvalid(ver, dst, len)
    THEN [ret |-> 0, buf |-> dst, writes |-> {}]
    ELSE IF len < 2
    THEN [ret |-> 0, buf |-> Store(dst, 0, 0), writes |-> {0}]
    ELSE LET r == snprintf(dst, len, Rendered(ver))
         IN  IF Overflowed(r.ret, len)
             THEN [ret |-> 0, buf |-> Store(r.buf, 0, 0),
                   writes |-> r.writes \cup {0}]
             ELSE [ret |-> r.ret, buf |-> r.buf, writes |-> r.writes]

\* ------------------------------------------------------------------------
\* C#: VersionInfo.ToString
\* ------------------------------------------------------------------------
ReleaseChannel_Release == 114

\* "{0} {1}.{2}.{3}{4}{5}{6}{7}"
VersionInfo_ToString(v) ==
    Str(Chars(Product(v)) \o <<32>>
        \o Decimal(v._major) \o <<46>> \o Decimal(v._minor) \o <<46>>
        \o Decimal(v._patch)
        \o <<v._releaseChannel>>
        \o (IF Length(TrimEnd(Metadata(v))) = 0 THEN << >>
            ELSE <<45>> \o Chars(TrimEnd(Metadata(v))))
        \o (IF v._releaseChannel # ReleaseChannel_Release
            THEN <<32, 40>> \o Chars(TrimEnd(CommitHash(v))) \o <<41>>
            ELSE << >>)
        \o (IF v._build = 0 THEN << >>
            ELSE <<32, 98, 117, 105, 108, 100, 32>> \o Decimal(v._build)))

\* ------------------------------------------------------------------------
\* Formatting: a caller builds a record and has it rendered
\* ------------------------------------------------------------------------
\* the longest output length a caller passes
MaxBufLen == 28

\* "" and "ACME"
FormatProducts == {<< >>, <<65, 67, 77, 69>>}

\* "" and "rc1"
FormatMetadata == {<< >>, <<114, 99, 49>>}

\* "" and "abc1234"
FormatCommits == {<< >>, <<97, 98, 99, 49, 50, 51, 52>>}

\* release, beta and the tag 0 no channel stands for
FormatChannels == {VERSION_CHANNEL_RELEASE, VERSION_CHANNEL_BETA, 0}

\* major, minor, patch, build
FormatInts ==
    << [major |-> 1, minor |-> 2, patch |-> 3, build |-> 7],
       [major |-> 1, minor |-> 2, patch |-> 3, build |-> 0],
       [major |-> 65535, minor |-> 10, patch |-> 0, build |-> 42],
       [major |-> 10, minor |-> 0, patch |-> 100, build |-> 256] >>

\* the prodVersion_t a C caller fills in; every text fits its array
FormatVersion(p, m, c, k, ch) ==
    [product |-> CharArray(Str(p), PRODVER_PRODUCT_LEN),
     major |-> FormatInts[k].major,
     minor |-> FormatInts[k].minor,
     patch |-> FormatInts[k].patch,
     build |-> FormatInts[k].build,
     releaseChannel |-> ch,
     metadata |-> CharArray(Str(m), PRODVER_METADATA_LEN),
     commitHash |-> CharArray(Str(c), PRODVER_COMMIT_LEN),
     date |-> IntSamples[1].date]

\* the VersionInfo a C# caller builds through the property setters
FormatVersionInfo(p, m, c, k, ch) ==
    LET v1 == SetProduct(NewVersionInfo, Str(p))
        v2 == SetMetadata(v1, Str(m))
        v3 == SetCommitHash(v2, Str(c))
    IN  [v3 EXCEPT !._major = FormatInts[k].major,
                   !._minor = FormatInts[k].minor,
                   !._patch = FormatInts[k].patch,
                   !._build = FormatInts[k].build,
                   !._releaseChannel = ch,
                   !._unixTimestamp = IntSamples[1].date]

\* the caller's output array holds one byte more than the length passed;
\* a caller may also pass no array at all
InitFormat ==
    /\ charSigned \in BOOLEAN
    /\ littleEndian = TRUE
    /\ \E p \in FormatProducts, m \in FormatMetadata, c \in FormatCommits,
          k \in DOMAIN FormatInts, ch \in FormatChannels :
          /\ texts = [product |-> Str(p), metadata |-> Str(m),
                      commit |-> Str(c)]
          /\ version = FormatVersion(p, m, c, k, ch)
          /\ vi = FormatVersionInfo(p, m, c, k, ch)
    /\ buf_len \in 0..MaxBufLen
    /\ ret_str \in {Filled(buf_len + 1, 85)}
                   \cup (IF buf_len = MaxBufLen THEN {NULL} ELSE {})
    /\ strRet = -1
    /\ strWrites = {}
    /\ csString = NULL
    /\ ret_buf = NULL
    /\ encRet = -1
    /\ csBuffer = NULL
    /\ buf = NULL
    /\ ret_version = StaleVersion
    /\ decRet = "none"
    /\ decReads = {}
    /\ csVersion = NewVersionInfo
    /\ csRet = "none"
    /\ csReads = {}

\* prodVersionToString(&version, ret_str, buf_len)
FormatC ==
    /\ strRet = -1
    /\ LET r == prodVersionToString(version, ret_str, buf_len)
       IN  /\ strRet' = r.ret
           /\ ret_str' = r.buf
           /\ strWrites' = r.writes
    /\ UNCHANGED <<codecVars, buf_len, csString, littleEndian>>

\* csString = vi.ToString()
FormatCS ==
    /\ csString = NULL
    /\ csString' = VersionInfo_ToString(vi)
    /\ UNCHANGED <<codecVars, ret_str, buf_len, strRet, strWrites,
                   littleEndian>>

NextFormat == FormatC \/ FormatCS

SpecFormat == InitFormat /\ [][NextFormat]_vars

\* ------------------------------------------------------------------------
\* C13 -- Formatter examples: the record {product="ACME", major=1,
\* minor=2, patch=3, build=7, channel=release, metadata="",
\* commitReference="abc1234"} is rendered exactly as "ACME 1.2.3r", and
\* the same record with channel=beta exactly as "ACME 1.2.3b (abc1234)".
\* ------------------------------------------------------------------------
\* the record of the examples, with the channel ch and the build number b
IsExample(ch, b) ==
    /\ texts = [product |-> Str(<<65, 67, 77, 69>>), metadata |-> Str(<< >>),
                commit |-> Str(<<97, 98, 99, 49, 50, 51, 52>>)]
    /\ version.major = 1 /\ version.minor = 2 /\ version.patch = 3
    /\ version.build = b /\ version.releaseChannel = ch
    /\ CSRecord(vi) = CRecord(version)

\* "ACME 1.2.3r"
ExampleRelease == <<65, 67, 77, 69, 32, 49, 46, 50, 46, 51, 114>>

\* "ACME 1.2.3b (abc1234)"
ExampleBeta ==
    <<65, 67, 77, 69, 32, 49, 46, 50, 46, 51, 98, 32, 40,
      97, 98, 99, 49, 50, 51, 52, 41>>

\* the C caller passed an array, and a length that holds every rendering of
\* the examples
RoomForExamples == ret_str # NULL /\ buf_len = MaxBufLen

SuffixBuild7 == <<32, 98, 117, 105, 108, 100, 32, 55>>

Fits == Len(Rendered(version)) + 1 <= buf_len

\* the formatter was called with an output array
Formatted == strRet # -1 /\ ret_str # NULL

\* no index from buf_len on was written, and the byte there is untouched
WithinBufLen ==
    /\ strWrites \subseteq 0..(buf_len - 1)
    /\ \A i \in DOMAIN ret_str : i >= buf_len => ret_str[i] = 85

FormatOverflow ==
    Formatted =>
        /\ WithinBufLen
        /\ ~Fits => (strRet = 0 /\ ret_str[0] = 0)

\* C14, amended -- For every record and every buf_len,
\* prodVersionToString never writes at or beyond index buf_len.  Whenever
\* the rendered text plus terminator does not fit it returns 0, and for
\* buf_len >= 1 it leaves an empty string in the output; for buf_len = 0
\* it writes nothing, so the output keeps what it held.  Whenever the text
\* fits, the output holds all of it, terminated.
OverflowRule ==
    Formatted =>
        /\ WithinBufLen
        /\ ~Fits => strRet = 0
        /\ (~Fits /\ buf_len >= 1) => ret_str[0] = 0
        /\ buf_len = 0 => (strWrites = {} /\ ret_str[0] = 85)
        /\ Fits =>
              /\ strRet = Len(Rendered(version))
              /\ Slice(ret_str, 0, strRet) = Str(Rendered(version))
              /\ ret_str[strRet] = 0

\* a rendering one character too long for buf_len was cut by snprintf and
\* then replaced by the empty string
OverflowRuleWitness ==
    /\ Formatted
    /\ buf_len >= 2
    /\ Len(Rendered(version)) = buf_len
    /\ strRet = 0
    /\ ret_str[0] = 0
    /\ ret_str[1] = Rendered(version)[2]
    /\ ret_str[buf_len] = 85

\* ------------------------------------------------------------------------
\* C15 -- Formatter rule: for every record, the rendered text contains the
\* commit reference if and only if the release channel is not the release
\* tag 'r', and contains the "-" separator followed by the metadata if and
\* only if metadata is non-empty; the parts appear in the order product,
\* space, major.minor.patch, channel character, metadata part, commit part,
\* build suffix.
\* ------------------------------------------------------------------------
\* the parts before the build suffix, put together from the caller's texts
\* as the rule says
RuleParts ==
    Chars(texts.product) \o <<32>>
    \o Decimal(version.major) \o <<46>> \o Decimal(version.minor) \o <<46>>
    \o Decimal(version.patch)
    \o <<version.releaseChannel>>
    \o (IF Length(texts.metadata) > 0
        THEN <<45>> \o Chars(texts.metadata) ELSE << >>)
    \o (IF version.releaseChannel # 114
        THEN <<32, 40>> \o Chars(texts.commit) \o <<41>> ELSE << >>)

\* the build suffix of prodVersionToString: one character
BuildSuffixC == <<version.build % 256>>

\* the build suffix of VersionInfo.ToString
BuildSuffixCS ==
    IF version.build = 0 THEN << >>
    ELSE <<32, 98, 117, 105, 108, 100, 32>> \o Decimal(version.build)

\* the characters of the sequence q before its first NUL
UpToNul(q) == Chars(BeforeZero(Str(q)))

FormatRule ==
    /\ (Formatted /\ strRet > 0)
          => CStr(ret_str) = Str(UpToNul(RuleParts \o BuildSuffixC))
             /\ Len(UpToNul(RuleParts \o BuildSuffixC)) >= Len(RuleParts)
    /\ (csString # NULL) => csString = Str(RuleParts \o BuildSuffixCS)

\* C15, amended -- For every record whose channel tag is not the zero
\* byte, the rendered text is made of the parts in the stated order, with
\* the commit part if and only if the channel is not 'r' and the "-" and
\* metadata if and only if metadata is non-empty.  For channel 0,
\* VersionInfo.ToString renders all parts, and prodVersionToString writes
\* all parts to the output and returns their count, but the string it
\* leaves ends before the channel character.
FormatRuleNonZero ==
    /\ (Formatted /\ strRet > 0) =>
          /\ Slice(ret_str, 0, strRet) = Str(RuleParts \o BuildSuffixC)
          /\ ret_str[strRet] = 0
          /\ version.releaseChannel # 0
                => /\ CStr(ret_str) = Str(UpToNul(RuleParts \o BuildSuffixC))
                   /\ Len(UpToNul(RuleParts \o BuildSuffixC)) >= Len(RuleParts)
          /\ version.releaseChannel = 0
                => CStr(ret_str) =
                      Str(Chars(texts.product) \o <<32>>
                          \o Decimal(version.major) \o <<46>>
                          \o Decimal(version.minor) \o <<46>>
                          \o Decimal(version.patch))
    /\ (csString # NULL) => csString = Str(RuleParts \o BuildSuffixCS)

\* both formatters have rendered a beta record with metadata and a commit
\* reference
FormatRuleWitness ==
    /\ Formatted /\ strRet > 0
    /\ csString # NULL
    /\ version.releaseChannel = VERSION_CHANNEL_BETA
    /\ Length(texts.metadata) > 0
    /\ Length(texts.commit) > 0
    /\ Length(texts.product) > 0

\* ------------------------------------------------------------------------
\* C17 -- Formatter return value: whenever prodVersionToString returns
\* non-zero, the returned number equals the length of the NUL-terminated
\* string left in the output, for every record including build = 0 and
\* every other build value; and the build number appears in that string as
\* decimal digits.
\* ------------------------------------------------------------------------
\* the string s ends with the characters of the sequence q
EndsWith(s, q) ==
    /\ Length(s) >= Len(q)
    /\ \A i \in 1..Len(q) : s[Length(s) - Len(q) + i - 1] = q[i]

FormatReturn ==
    (Formatted /\ strRet > 0) =>
        /\ strRet = Length(CStr(ret_str))
        /\ EndsWith(CStr(ret_str), Decimal(version.build))

\* ------------------------------------------------------------------------
\* The untagged generation, C: prodVersionEncodeBytes of src/c/prodversion.h
\* ------------------------------------------------------------------------
\* sizeof(prodVersion_t) of the untagged generation, with the members
\* aligned as on the common 64-bit ABIs
OLD_SIZEOF_VERSION == 80

\* the bytes of a 16-bit value as the build stores them
NativeU16(v) ==
    IF littleEndian THEN [k \in 0..1 |-> IF k = 0 THEN v % 256 ELSE v \div 256]
                    ELSE [k \in 0..1 |-> IF k = 0 THEN v \div 256 ELSE v % 256]

\* the bytes of a 64-bit value as the build stores them
NativeU64(d) ==
    IF littleEndian THEN [k \in 0..7 |-> U64Bytes(d)[7 - k]] ELSE U64Bytes(d)

OldEncodeArgsInvalid(dst, len, ver) ==
    dst = NULL \/ ver = NULLV \/ len < OLD_SIZEOF_VERSION

\* a 16-bit field stored in the order opposite to the build's
OldEncU16_Swapped(st, v) ==
    [buf |-> Store(Store(st.buf, st.offset, NativeU16(v)[1]),
                   st.offset + 1, NativeU16(v)[0]),
     offset |-> st.offset + 2]

\* memcpy(ret_buf + offset, &version->major, sizeof(version->major))
OldEncU16(st, v) ==
    [buf |-> memcpy(st.buf, st.offset, NativeU16(v), 0, 2),
     offset |-> st.offset + 2]

OldEncSemver(st, ver) ==
    OldEncU16(OldEncU16(OldEncU16(OldEncU16(st, ver.major), ver.minor),
                        ver.patch), ver.build)

OldEncChannel(st, ver) ==
    [buf |-> Store(st.buf, st.offset, ToChar(ver.releaseChannel)),
     offset |-> st.offset + 1]

OldEncMetadata(st, ver) ==
    [buf |-> Store(strncpy(st.buf, st.offset, ver.metadata,
                           ArrayLen(ver.metadata) - 1),
                   st.offset + ArrayLen(ver.metadata) - 1, 0),
     offset |-> st.offset + ArrayLen(ver.metadata)]

OldEncCommit(st, ver) ==
    [buf |-> Store(strncpy(st.buf, st.offset, ver.commitHash,
                           ArrayLen(ver.commitHash) - 1),
                   st.offset + ArrayLen(ver.commitHash) - 1, 0),
     offset |-> st.offset + ArrayLen(ver.commitHash)]

OldEncDate(st, ver) ==
    [buf |-> memcpy(st.buf, st.offset, NativeU64(ver.date), 0, 8),
     offset |-> st.offset + 8]

\* returns the value returned and the destination buffer after the call
OldEncodeBytes(dst, len, ver) ==
    IF OldEncodeArgsInvalid(dst, len, ver)
    THEN [ret |-> 0, buf |-> dst]
    ELSE LET s0 == [buf |-> dst, offset |-> 0]
             s1 == OldEncSemver(s0, ver)
             s2 == OldEncChannel(s1, ver)
             s3 == OldEncMetadata(s2, ver)
             s4 == OldEncCommit(s3, ver)
             s5 == OldEncDate(s4, ver)
         IN  [ret |-> s5.offset, buf |-> s5.buf]

\* ------------------------------------------------------------------------
\* The untagged generation, C#: VersionInfo of src/csharp
\* ------------------------------------------------------------------------
OLD_PRODUCT_SIZE == 25
OLD_METADATA_SIZE == 15
OLD_COMMIT_HASH_SIZE == 7

\* value.PadRight(size, '\0')
PadRight(value, size) ==
    [i \in 0..((IF Length(value) > size THEN Length(value) ELSE size) - 1) |->
        IF i < Length(value) THEN value[i] ELSE 0]

\* the value stored by the setter of a text property of width size
OldSetText(value, size) ==
    LET v == IF value = NULL THEN EmptyString ELSE value
    IN  IF Length(v) > size THEN Substring(v, 0, size) ELSE PadRight(v, size)

\* BitConverter.GetBytes(ushort)
GetBytesU16(v) == NativeU16(v)

\* BitConverter.GetBytes(ulong)
GetBytesU64(d) == NativeU64(d)

\* VersionInfo.Encode of the untagged generation
OldEncode(v) ==
    LET b0 == NewBytes(64)
        b1 == CopyTo(ASCII_GetBytes(Product(v)), b0, 0)
        o1 == OLD_PRODUCT_SIZE
        b2 == CopyTo(GetBytesU16(v._major), b1, o1)
        b3 == CopyTo(GetBytesU16(v._minor), b2, o1 + 2)
        b4 == CopyTo(GetBytesU16(v._patch), b3, o1 + 4)
        b5 == CopyTo(GetBytesU16(v._build), b4, o1 + 6)
        o2 == o1 + 8
        b6 == Store(b5, o2, U8(v._releaseChannel))
        o3 == o2 + 1
        b7 == CopyTo(ASCII_GetBytes(Metadata(v)), b6, o3)
        o4 == o3 + OLD_METADATA_SIZE
        b8 == CopyTo(ASCII_GetBytes(CommitHash(v)), b7, o4)
        o5 == o4 + OLD_COMMIT_HASH_SIZE
    IN  CopyTo(GetBytesU64(v._unixTimestamp), b8, o5)

\* ------------------------------------------------------------------------
\* Bytes of the untagged generation reach the decoders of the tagged one
\* ------------------------------------------------------------------------
\* "", "ACME", and a product whose first character is U+0001
OldProducts == {<< >>, <<65, 67, 77, 69>>, <<1, 67, 77, 69>>}

\* major versions whose low or high byte is 1, and others
OldMajors == {1, 2, 256, 258}

\* "rc1" and "abc1234"
OldMetadataText == <<114, 99, 49>>
OldCommitText == <<97, 98, 99, 49, 50, 51, 52>>

\* the prodVersion_t of the untagged generation: product[25+1],
\* metadata[16+1], commitHash[7+1]
OldVersion(p, mj) ==
    [product |-> CharArray(Str(p), 25),
     major |-> mj, minor |-> 2, patch |-> 3, build |-> 7,
     releaseChannel |-> VERSION_CHANNEL_RELEASE,
     metadata |-> CharArray(Str(OldMetadataText), 16),
     commitHash |-> CharArray(Str(OldCommitText), 7),
     date |-> IntSamples[1].date]

\* the VersionInfo of the untagged generation, built through its setters
OldVersionInfo(p, mj) ==
    [_product |-> OldSetText(Str(p), OLD_PRODUCT_SIZE),
     _major |-> mj, _minor |-> 2, _patch |-> 3, _build |-> 7,
     _releaseChannel |-> VERSION_CHANNEL_RELEASE,
     _metadata |-> OldSetText(Str(OldMetadataText), OLD_METADATA_SIZE),
     _commitHash |-> OldSetText(Str(OldCommitText), OLD_COMMIT_HASH_SIZE),
     _unixTimestamp |-> IntSamples[1].date]

\* destinations one byte short of the old structure's size, and of its size
OldPriors ==
    {Filled(n, f) : n \in {OLD_SIZEOF_VERSION - 1, OLD_SIZEOF_VERSION},
                    f \in Fills}

InitOld ==
    /\ charSigned \in BOOLEAN
    /\ littleEndian \in BOOLEAN
    /\ FormatIdle
    /\ \E p \in OldProducts, mj \in OldMajors :
          /\ texts = [product |-> Str(p), metadata |-> Str(OldMetadataText),
                      commit |-> Str(OldCommitText)]
          /\ version = OldVersion(p, mj)
          /\ vi = OldVersionInfo(p, mj)
    /\ ret_buf \in OldPriors
    /\ encRet = -1
    /\ csBuffer = NULL
    /\ buf = NULL
    /\ ret_version = StaleVersion
    /\ decRet = "none"
    /\ decReads = {}
    /\ csVersion = NewVersionInfo
    /\ csRet = "none"
    /\ csReads = {}

\* the untagged prodVersionEncodeBytes(ret_buf, sizeof ret_buf, &version)
OldEncodeC ==
    /\ encRet = -1
    /\ LET r == OldEncodeBytes(ret_buf, ArrayLen(ret_buf), version)
       IN  /\ encRet' = r.ret
           /\ ret_buf' = r.buf
    /\ UNCHANGED <<charSigned, texts, version, vi, csBuffer, buf, ret_version,
                   decRet, decReads, csVersion, csRet, csReads>>
    /\ UNCHANGED <<formatVars, littleEndian>>

\* csBuffer = the untagged VersionInfo.Encode(vi)
OldEncodeCS ==
    /\ csBuffer = NULL
    /\ csBuffer' = OldEncode(vi)
    /\ UNCHANGED <<charSigned, texts, version, ret_buf, encRet, vi, buf,
                   ret_version, decRet, decReads, csVersion, csRet, csReads>>
    /\ UNCHANGED <<formatVars, littleEndian>>

\* the bytes of an untagged encoder reach the consumers: the C
\* destination in full, its bytes up to the length returned, or the C#
\* array
DeliverOld ==
    /\ buf = NULL
    /\ \/ /\ encRet > 0
          /\ buf' = ret_buf
       \/ /\ encRet > 0
          /\ buf' = Slice(ret_buf, 0, encRet)
       \/ /\ csBuffer # NULL
          /\ buf' = csBuffer
    /\ UNCHANGED <<charSigned, texts, version, ret_buf, encRet, vi, csBuffer,
                   ret_version, decRet, decReads, csVersion, csRet, csReads>>
    /\ UNCHANGED <<formatVars, littleEndian>>

NextOld == OldEncodeC \/ OldEncodeCS \/ DeliverOld \/ DecodeC \/ DecodeCS

SpecOld == InitOld /\ [][NextOld]_vars

\* the decoders were handed what the untagged C / C# encoder produced
FromOldC ==
    encRet > 0 /\ (buf = ret_buf \/ buf = Slice(ret_buf, 0, encRet))
FromOldCS == csBuffer # NULL /\ buf = csBuffer

TextSlots == {<<1, 24>>, <<34, 15>>, <<49, 7>>}

\* b with every byte that follows a zero byte of its text slot set to zero
Canonical(b) ==
    [i \in DOMAIN b |->
        IF \E s \in TextSlots :
              /\ i \in s[1]..(s[1] + s[2] - 1)
              /\ \E j \in s[1]..(i - 1) : b[j] = 0
        THEN 0 ELSE b[i]]

Reencoding ==
    (ArrayLen(buf) = 64 /\ buf[0] = 1 /\ encRet # -1) =>
        /\ encRet = 64
        /\ ret_buf = Canonical(buf)
        /\ LET again == prodVersionDecodeBytes(ret_buf, 64, StaleVersion)
           IN  /\ again.ret
               /\ CRecord(again.out) = CRecord(ret_version)
        /\ buf \in EncoderOutputs => ret_buf = buf

\* a buffer with non-zero bytes after the zero byte of its product slot, and
\* a channel byte above 0x7F, was decoded and encoded again
ReencodingWitness ==
    /\ encRet = 64
    /\ buf[5] = 0
    /\ buf[6] # 0
    /\ ret_buf[6] = 0
    /\ ret_buf # buf
    /\ buf[33] >= 128

====
